---- MODULE Spec2Model ----
(***************************************************************************)
(* Model of the GopherCon 2025 agenda server's session loader.             *)
(*                                                                         *)
(* Three deployments of the same pipeline are modelled, chosen in Init:    *)
(*   "online"  : sessions.go, loadSessions with offlineMode = false        *)
(*   "offline" : sessions.go, loadSessions with offlineMode = true         *)
(*   "main"    : main.go + loadAllSessions, the non-blocking query variant *)
(* Identifiers are naturals (0 stands for the empty string), a URL is the  *)
(* pair <<prefix, id>>, an error value records which call produced it.     *)
(***************************************************************************)
EXTENDS Integers, Sequences, FiniteSets, TLC

\* ---------------------------------------------------------------- bounds
NumIDs == 3
MaxWorkers == 2
MaxSnap == 2
MaxSnapID == 2
NumWriters == 2
NumReaders == 2
MaxPuts == 2

\* ------------------------------------------------------- program constants
maxRetries == 3

\* sessionIDs is a fixed list in which one identifier occurs twice
\* ("1557391" in the source); the last entry repeats the first.
sessionIDs == [i \in 1..NumIDs |-> IF i = NumIDs THEN 1 ELSE i]

Titles == {"T1", "T2"}
Workers == 1..MaxWorkers
Writers == 1..NumWriters
Readers == 1..NumReaders

\* --------------------------------------------------------------- records
ZeroSession == [ID |-> 0, Title |-> "", URL |-> <<>>]

NoErr == [kind |-> "nil", sessionID |-> 0, cause |-> "nil"]

URLOf(sessionID) == <<"https://www.gophercon.com/agenda/session/", sessionID>>

\* What fetchPage can return for one call: the rendered markup (carrying a
\* title), markup that cannot be parsed as a document, or a chromedp error.
Pages ==
    [kind : {"html"}, title : Titles, cause : {"nil"}]
    \cup [kind : {"garbage"}, title : {""}, cause : {"nil"}]
    \cup [kind : {"fail"}, title : {""}, cause : {"timeout"}]

parseSession(sessionID, url, page) ==
    IF page.kind = "fail"
    THEN <<ZeroSession, [kind |-> "fetch", sessionID |-> sessionID, cause |-> page.cause]>>
    ELSE IF page.kind = "garbage"
    THEN <<ZeroSession, [kind |-> "parse", sessionID |-> sessionID, cause |-> "html"]>>
    ELSE <<[ID |-> sessionID, Title |-> page.title, URL |-> url], NoErr>>

\* Mutant of Backoff: the same one-second sleep after every failed attempt.
BackoffFixed(attempt) == 1

\* The time.Sleep argument after a failed attempt, in seconds.
Backoff(attempt) == attempt

\* --------------------------------------------------------------- snapshot
SnapRecords == [ID : 0..MaxSnapID, Title : Titles, URL : {<<>>}]

SnapSeqs == UNION {[1..n -> SnapRecords] : n \in 0..MaxSnap}

\* A snapshot file: missing, corrupt (data = what the decoder had read when
\* it failed) or a well-formed list of records.
Files ==
    [status : {"ok", "corrupt"}, data : SnapSeqs]
    \cup [status : {"missing"}, data : {<<>>}]

VARIABLES
    variant,        \* which deployment runs
    file,           \* the snapshot file (offline)
    ldr,            \* position of the loader (loadSessions / its goroutine)
    ret,            \* what loadSessions returned: "none" (not yet), "nil", "error"
    sessionsMap,    \* the catalog
    readyCloses,    \* number of close(sessionsReady) executed
    panicked,       \* the process died of a run-time panic
    sessionChan, sessionChanClosed, sent,
    resultChan, resultChanClosed,
    wg,             \* the WaitGroup counter
    watcher,        \* the goroutine that waits for wg and closes resultChan
    wk,             \* the workers
    cancelCalls, browserCancelCalls,
    sessionsLoaded, loadingError,
    res,            \* response of the last query handler call
    mapWrites,      \* number of writes made to sessionsMap
    jobsOK,         \* number of fetch jobs that ended with a record
    okIDs,          \* identifiers some fetch job of which ended with a record
    consumed,       \* per identifier, the results the merge loop received
    mu,             \* sessionsMutex: write-locked flag and number of read locks
    wr,             \* goroutines that write one record to the catalog
    rd,             \* goroutines that call sessions() or sessionByID()
    heap,           \* backing arrays of the Speakers slices, by address
    got             \* the slice a caller of sessions() holds

vars == <<variant, file, ldr, ret, sessionsMap, readyCloses, panicked,
          sessionChan, sessionChanClosed, sent, resultChan, resultChanClosed,
          wg, watcher, wk, cancelCalls, browserCancelCalls,
          sessionsLoaded, loadingError, res, mapWrites, jobsOK, okIDs,
          consumed, mu, wr, rd, heap, got>>

storeVars == <<mu, wr, rd>>

copyVars == <<heap, got>>

pipeVars == <<sessionChan, sessionChanClosed, sent, resultChan, resultChanClosed,
              wg, watcher, wk>>

IdleWorker ==
    [pc |-> "off", sessionID |-> 0, attempt |-> 0, session |-> ZeroSession,
     err |-> NoErr, calls |-> 0, sleeps |-> <<>>, last |-> <<ZeroSession, NoErr>>,
     firstOK |-> 0]

IdleWriter == [pc |-> "idle", tmp |-> <<>>]

IdleReader == [pc |-> "idle", op |-> "none", arg |-> 0, out |-> <<>>]

NoRes == [op |-> "none", arg |-> 0, loaded |-> FALSE, content |-> <<>>,
          structured |-> <<>>, err |-> "nil"]

\* ------------------------------------------------------------ the catalog
Put(m, k, v) == [x \in (DOMAIN m) \cup {k} |-> IF x = k THEN v ELSE m[x]]

EmptyMap == [x \in {} |-> ZeroSession]

Orderings(S) == {f \in [1..Cardinality(S) -> S] : \A i, j \in DOMAIN f : f[i] = f[j] => i = j}

\* sessions() for one iteration order of the map.
sessions(order) == [i \in DOMAIN order |-> sessionsMap[order[i]]]

\* Everything sessions() can return in the current state.
sessionsResults == {sessions(o) : o \in Orderings(DOMAIN sessionsMap)}

sessionByID(id) ==
    IF id \in DOMAIN sessionsMap THEN <<sessionsMap[id], TRUE>> ELSE <<ZeroSession, FALSE>>

InitCommon ==
    /\ ldr = "start"
    /\ ret = "none"
    /\ sessionsMap = EmptyMap
    /\ readyCloses = 0
    /\ panicked = FALSE
    /\ sessionChan = <<>>
    /\ sessionChanClosed = FALSE
    /\ sent = 0
    /\ resultChan = <<>>
    /\ resultChanClosed = FALSE
    /\ wg = 0
    /\ watcher = "off"
    /\ wk = [w \in Workers |-> IdleWorker]
    /\ cancelCalls = 0
    /\ browserCancelCalls = 0
    /\ sessionsLoaded = FALSE
    /\ loadingError = "nil"
    /\ res = NoRes
    /\ mapWrites = 0
    /\ jobsOK = 0
    /\ okIDs = {}
    /\ consumed = [id \in {sessionIDs[i] : i \in DOMAIN sessionIDs} |-> 0]
    /\ mu = [writer |-> FALSE, readers |-> 0]
    /\ wr = [w \in Writers |-> IdleWriter]
    /\ rd = [r \in Readers |-> IdleReader]
    /\ heap = <<>>
    /\ got = <<>>

\* The sessions.go program, started with or without -offline.
Init ==
    /\ variant \in {"online", "offline"}
    /\ file \in Files
    /\ (variant = "online" => file = [status |-> "missing", data |-> <<>>])
    /\ InitCommon

\* The main.go program (no offline mode).
InitMain ==
    /\ variant = "main"
    /\ file = [status |-> "missing", data |-> <<>>]
    /\ InitCommon

\* Mutant of MergeAll: records are keyed by their position in the file.
RECURSIVE MergeAllByIndex(_, _)
MergeAllByIndex(m, data) ==
    IF data = <<>> THEN m
    ELSE MergeAllByIndex(Put(m, Len(data), Head(data)), Tail(data))

\* Mutant of MergeAll: an identifier already present is not overwritten.
RECURSIVE MergeAllFirstWins(_, _)
MergeAllFirstWins(m, data) ==
    IF data = <<>> THEN m
    ELSE MergeAllFirstWins(IF Head(data).ID \in DOMAIN m THEN m
                           ELSE Put(m, Head(data).ID, Head(data)), Tail(data))

\* ------------------------------------------------- loadSessions (sessions.go)
\* The bulk load of loadSessionsFromFile: <<catalog after, error>>.
RECURSIVE MergeAll(_, _)
MergeAll(m, data) ==
    IF data = <<>> THEN m
    ELSE MergeAll(Put(m, Head(data).ID, Head(data)), Tail(data))

\* Mutant of loadSessionsFromFile: entries are merged while they are decoded,
\* so a decoding error leaves the entries read so far in the catalog.
loadSessionsFromFileStreaming(m, f) ==
    IF f.status = "missing" THEN <<m, "open">>
    ELSE IF f.status = "corrupt" THEN <<MergeAll(m, f.data), "decode">>
    ELSE <<MergeAll(m, f.data), "nil">>

loadSessionsFromFile(m, f) ==
    IF f.status = "missing" THEN <<m, "open">>
    ELSE IF f.status = "corrupt" THEN <<m, "decode">>
    ELSE <<MergeAll(m, f.data), "nil">>

LoadSessionsOffline ==
    /\ ~panicked
    /\ UNCHANGED <<consumed, storeVars, copyVars>>
    /\ variant = "offline"
    /\ ldr = "start"
    /\ LET r == loadSessionsFromFile(sessionsMap, file) IN
        /\ sessionsMap' = r[1]
        /\ mapWrites' = mapWrites + (IF r[2] = "nil" THEN Len(file.data) ELSE 0)
        /\ readyCloses' = (IF r[2] = "nil" THEN readyCloses + 1 ELSE readyCloses)
        /\ ret' = (IF r[2] = "nil" THEN "nil" ELSE "error")
    /\ ldr' = "done"
    /\ UNCHANGED <<variant, file, panicked, pipeVars, cancelCalls, browserCancelCalls,
                   sessionsLoaded, loadingError, res, jobsOK, okIDs>>

LoadSessionsOnline ==
    /\ ~panicked
    /\ UNCHANGED <<consumed, storeVars, copyVars>>
    /\ variant = "online"
    /\ ldr = "start"
    /\ ldr' = "newFetcher"
    /\ ret' = "nil"
    /\ UNCHANGED <<variant, file, sessionsMap, readyCloses, panicked, pipeVars,
                   cancelCalls, browserCancelCalls, sessionsLoaded, loadingError,
                   res, mapWrites, jobsOK, okIDs>>

\* main.go: the loader goroutine is started.
MainStart ==
    /\ ~panicked
    /\ UNCHANGED <<consumed, storeVars, copyVars>>
    /\ variant = "main"
    /\ ldr = "start"
    /\ ldr' = "newFetcher"
    /\ UNCHANGED <<variant, file, ret, sessionsMap, readyCloses, panicked, pipeVars,
                   cancelCalls, browserCancelCalls, sessionsLoaded, loadingError,
                   res, mapWrites, jobsOK, okIDs>>

NewFetcher ==
    /\ ~panicked
    /\ UNCHANGED <<consumed, storeVars, copyVars>>
    /\ ldr = "newFetcher"
    /\ ldr' = "fetch"
    /\ UNCHANGED <<variant, file, ret, sessionsMap, readyCloses, panicked, pipeVars,
                   cancelCalls, browserCancelCalls, sessionsLoaded, loadingError,
                   res, mapWrites, jobsOK, okIDs>>

\* ------------------------------------------------------------ fetcher.fetch
\* Channels are made, the workers, the dispatcher and the watcher are started.
FetchStart ==
    /\ ~panicked
    /\ UNCHANGED <<consumed, storeVars, copyVars>>
    /\ ldr = "fetch"
    /\ ldr' = "merge"
    /\ wg' = MaxWorkers
    /\ wk' = [w \in Workers |-> [IdleWorker EXCEPT !.pc = "recv"]]
    /\ watcher' = "wait"
    /\ UNCHANGED <<variant, file, ret, sessionsMap, readyCloses, panicked,
                   sessionChan, sessionChanClosed, sent, resultChan, resultChanClosed,
                   cancelCalls, browserCancelCalls, sessionsLoaded, loadingError,
                   res, mapWrites, jobsOK, okIDs>>

\* Mutant of resultChanCap: the results channel is sized to the pool.
resultChanCapPerWorker == MaxWorkers

\* make(chan string, len(sessionIDs)) and make(chan sessionResult, len(sessionIDs)).
sessionChanCap == Len(sessionIDs)

resultChanCap == Len(sessionIDs)

Dispatch ==
    /\ ~panicked
    /\ UNCHANGED <<consumed, storeVars, copyVars>>
    /\ watcher # "off"
    /\ sent < Len(sessionIDs)
    /\ Len(sessionChan) < sessionChanCap
    /\ sessionChan' = Append(sessionChan, sessionIDs[sent + 1])
    /\ sent' = sent + 1
    /\ UNCHANGED <<variant, file, ldr, ret, sessionsMap, readyCloses, panicked,
                   sessionChanClosed, resultChan, resultChanClosed, wg, watcher, wk,
                   cancelCalls, browserCancelCalls, sessionsLoaded, loadingError,
                   res, mapWrites, jobsOK, okIDs>>

DispatchClose ==
    /\ ~panicked
    /\ UNCHANGED <<consumed, storeVars, copyVars>>
    /\ watcher # "off"
    /\ sent = Len(sessionIDs)
    /\ ~sessionChanClosed
    /\ sessionChanClosed' = TRUE
    /\ UNCHANGED <<variant, file, ldr, ret, sessionsMap, readyCloses, panicked,
                   sessionChan, sent, resultChan, resultChanClosed, wg, watcher, wk,
                   cancelCalls, browserCancelCalls, sessionsLoaded, loadingError,
                   res, mapWrites, jobsOK, okIDs>>

\* Mutant of WatcherClose: the results channel is closed without wg.Wait().
WatcherCloseNoWait ==
    /\ ~panicked
    /\ UNCHANGED <<consumed, storeVars, copyVars>>
    /\ watcher = "wait"
    /\ resultChanClosed' = TRUE
    /\ watcher' = "done"
    /\ UNCHANGED <<variant, file, ldr, ret, sessionsMap, readyCloses, panicked,
                   sessionChan, sessionChanClosed, sent, resultChan, wg, wk,
                   cancelCalls, browserCancelCalls, sessionsLoaded, loadingError,
                   res, mapWrites, jobsOK, okIDs>>

\* wg.Wait(); close(resultChan)
WatcherClose ==
    /\ ~panicked
    /\ UNCHANGED <<consumed, storeVars, copyVars>>
    /\ watcher = "wait"
    /\ wg = 0
    /\ resultChanClosed' = TRUE
    /\ watcher' = "done"
    /\ UNCHANGED <<variant, file, ldr, ret, sessionsMap, readyCloses, panicked,
                   sessionChan, sessionChanClosed, sent, resultChan, wg, wk,
                   cancelCalls, browserCancelCalls, sessionsLoaded, loadingError,
                   res, mapWrites, jobsOK, okIDs>>

\* ----------------------------------------------------------- fetcher.worker
\* Mutant of WorkerRecv: the worker returns without wg.Done().
WorkerRecvNoDone(w) ==
    /\ ~panicked
    /\ UNCHANGED <<consumed, storeVars, copyVars>>
    /\ wk[w].pc = "recv"
    /\ \/ /\ sessionChan # <<>>
          /\ wk' = [wk EXCEPT ![w] = [IdleWorker EXCEPT !.pc = "attempt",
                                        !.sessionID = Head(sessionChan),
                                        !.attempt = 1]]
          /\ sessionChan' = Tail(sessionChan)
       \/ /\ sessionChan = <<>>
          /\ sessionChanClosed
          /\ wk' = [wk EXCEPT ![w].pc = "exit"]
          /\ sessionChan' = sessionChan
    /\ UNCHANGED <<variant, file, ldr, ret, sessionsMap, readyCloses, panicked,
                   sessionChanClosed, sent, resultChan, resultChanClosed, watcher, wg,
                   cancelCalls, browserCancelCalls, sessionsLoaded, loadingError,
                   res, mapWrites, jobsOK, okIDs>>

WorkerRecv(w) ==
    /\ ~panicked
    /\ UNCHANGED <<consumed, storeVars, copyVars>>
    /\ wk[w].pc = "recv"
    /\ \/ /\ sessionChan # <<>>
          /\ wk' = [wk EXCEPT ![w] = [IdleWorker EXCEPT !.pc = "attempt",
                                        !.sessionID = Head(sessionChan),
                                        !.attempt = 1]]
          /\ sessionChan' = Tail(sessionChan)
          /\ wg' = wg
       \/ /\ sessionChan = <<>>
          /\ sessionChanClosed
          /\ wk' = [wk EXCEPT ![w].pc = "exit"]
          /\ wg' = wg - 1
          /\ sessionChan' = sessionChan
    /\ UNCHANGED <<variant, file, ldr, ret, sessionsMap, readyCloses, panicked,
                   sessionChanClosed, sent, resultChan, resultChanClosed, watcher,
                   cancelCalls, browserCancelCalls, sessionsLoaded, loadingError,
                   res, mapWrites, jobsOK, okIDs>>

\* Mutant of AfterAttempt: the retry bound is off by one.
AfterAttemptOneMore(s, r) ==
    LET t == [s EXCEPT !.session = r[1], !.err = r[2], !.calls = s.calls + 1,
                       !.last = r]
    IN  IF r[2] = NoErr
        THEN [t EXCEPT !.pc = "send",
                       !.firstOK = IF s.firstOK = 0 THEN s.attempt ELSE s.firstOK]
        ELSE IF s.attempt < maxRetries + 1
        THEN [t EXCEPT !.sleeps = Append(s.sleeps, Backoff(s.attempt)),
                       !.attempt = s.attempt + 1]
        ELSE [t EXCEPT !.pc = "send", !.attempt = s.attempt + 1]

\* One pass of the retry loop: the worker record after parseSession returned
\* r = <<session, err>>. A failed attempt with attempts left sleeps
\* Backoff(attempt) seconds (recorded in sleeps) and increments attempt; the
\* sleep touches nothing but the worker's own locals.
AfterAttempt(s, r) ==
    LET t == [s EXCEPT !.session = r[1], !.err = r[2], !.calls = s.calls + 1,
                       !.last = r]
    IN  IF r[2] = NoErr
        THEN [t EXCEPT !.pc = "send",
                       !.firstOK = IF s.firstOK = 0 THEN s.attempt ELSE s.firstOK]
        ELSE IF s.attempt < maxRetries
        THEN [t EXCEPT !.sleeps = Append(s.sleeps, Backoff(s.attempt)),
                       !.attempt = s.attempt + 1]
        ELSE [t EXCEPT !.pc = "send", !.attempt = s.attempt + 1]

WorkerAttempt(w) ==
    /\ ~panicked
    /\ UNCHANGED <<consumed, storeVars, copyVars>>
    /\ wk[w].pc = "attempt"
    /\ \E page \in Pages :
        LET r == parseSession(wk[w].sessionID, URLOf(wk[w].sessionID), page)
            t == AfterAttempt(wk[w], r)
        IN  /\ wk' = [wk EXCEPT ![w] = t]
            /\ jobsOK' = (IF t.pc = "send" /\ t.err = NoErr THEN jobsOK + 1 ELSE jobsOK)
            /\ okIDs' = (IF t.pc = "send" /\ t.err = NoErr
                         THEN okIDs \cup {wk[w].sessionID} ELSE okIDs)
    /\ UNCHANGED <<variant, file, ldr, ret, sessionsMap, readyCloses, panicked,
                   sessionChan, sessionChanClosed, sent, resultChan, resultChanClosed,
                   wg, watcher, cancelCalls, browserCancelCalls, sessionsLoaded,
                   loadingError, res, mapWrites>>

ResultOf(s) == [sessionID |-> s.sessionID, session |-> s.session, err |-> s.err]

\* Mutant of WorkerSend: a job that failed sends no result.
WorkerSendDropFailed(w) ==
    /\ ~panicked
    /\ UNCHANGED <<consumed, storeVars, copyVars>>
    /\ wk[w].pc = "send"
    /\ \/ /\ resultChanClosed
          /\ panicked' = TRUE
          /\ UNCHANGED <<resultChan, wk>>
       \/ /\ ~resultChanClosed
          /\ Len(resultChan) < resultChanCap
          /\ resultChan' = (IF wk[w].err # NoErr THEN resultChan
                            ELSE Append(resultChan, ResultOf(wk[w])))
          /\ wk' = [wk EXCEPT ![w] = [IdleWorker EXCEPT !.pc = "recv"]]
          /\ UNCHANGED panicked
    /\ UNCHANGED <<variant, file, ldr, ret, sessionsMap, readyCloses,
                   sessionChan, sessionChanClosed, sent, resultChanClosed,
                   wg, watcher, cancelCalls, browserCancelCalls, sessionsLoaded,
                   loadingError, res, mapWrites, jobsOK, okIDs>>

\* resultChan <- sessionResult{...}; a send on a closed channel panics.
WorkerSend(w) ==
    /\ ~panicked
    /\ UNCHANGED <<consumed, storeVars, copyVars>>
    /\ wk[w].pc = "send"
    /\ \/ /\ resultChanClosed
          /\ panicked' = TRUE
          /\ UNCHANGED <<resultChan, wk>>
       \/ /\ ~resultChanClosed
          /\ Len(resultChan) < resultChanCap
          /\ resultChan' = Append(resultChan, ResultOf(wk[w]))
          /\ wk' = [wk EXCEPT ![w] = [IdleWorker EXCEPT !.pc = "recv"]]
          /\ UNCHANGED panicked
    /\ UNCHANGED <<variant, file, ldr, ret, sessionsMap, readyCloses,
                   sessionChan, sessionChanClosed, sent, resultChanClosed,
                   wg, watcher, cancelCalls, browserCancelCalls, sessionsLoaded,
                   loadingError, res, mapWrites, jobsOK, okIDs>>

\* ------------------------------------------------- fetch: the merge loop
\* Mutant of MergeResult: the result's error is not looked at.
MergeResultIgnoringErr(m, result) == Put(m, result.session.ID, result.session)

\* Mutant of MergeResult: a failed result removes the identifier's entry.
MergeResultDeleteOnErr(m, result) ==
    IF result.err # NoErr
    THEN [x \in (DOMAIN m) \ {result.sessionID} |-> m[x]]
    ELSE Put(m, result.session.ID, result.session)

\* The loop body for one received result: the catalog afterwards.
MergeResult(m, result) ==
    IF result.err # NoErr THEN m
    ELSE Put(m, result.session.ID, result.session)

MergeStep ==
    /\ ~panicked
    /\ UNCHANGED <<storeVars, copyVars>>
    /\ ldr = "merge"
    /\ resultChan # <<>>
    /\ consumed' = [consumed EXCEPT ![Head(resultChan).sessionID] = @ + 1]
    /\ sessionsMap' = MergeResult(sessionsMap, Head(resultChan))
    /\ mapWrites' = (IF Head(resultChan).err # NoErr THEN mapWrites ELSE mapWrites + 1)
    /\ resultChan' = Tail(resultChan)
    /\ UNCHANGED <<variant, file, ldr, ret, readyCloses, panicked,
                   sessionChan, sessionChanClosed, sent, resultChanClosed,
                   wg, watcher, wk, cancelCalls, browserCancelCalls, sessionsLoaded,
                   loadingError, res, jobsOK, okIDs>>

\* Mutant of FetchEnd: readiness is signaled without waiting for the results
\* channel to be closed and drained.
FetchEndEarly ==
    /\ ~panicked
    /\ UNCHANGED <<consumed, storeVars, copyVars>>
    /\ variant = "online"
    /\ ldr = "merge"
    /\ readyCloses' = readyCloses + 1
    /\ ldr' = "fetched"
    /\ UNCHANGED <<variant, file, ret, sessionsMap, panicked, pipeVars,
                   cancelCalls, browserCancelCalls, sessionsLoaded, loadingError,
                   res, mapWrites, jobsOK, okIDs>>

\* sessions.go: the range loop ends and fetch closes sessionsReady.
FetchEnd ==
    /\ ~panicked
    /\ UNCHANGED <<consumed, storeVars, copyVars>>
    /\ variant = "online"
    /\ ldr = "merge"
    /\ resultChan = <<>>
    /\ resultChanClosed
    /\ readyCloses' = readyCloses + 1
    /\ ldr' = "fetched"
    /\ UNCHANGED <<variant, file, ret, sessionsMap, panicked, pipeVars,
                   cancelCalls, browserCancelCalls, sessionsLoaded, loadingError,
                   res, mapWrites, jobsOK, okIDs>>

\* Mutant of LoaderCloseReady: Close is not deferred, so the panic of the
\* second close ends the process before it is called.
LoaderCloseReadyNoDefer ==
    /\ ~panicked
    /\ UNCHANGED <<consumed, storeVars, copyVars>>
    /\ variant = "online"
    /\ ldr = "fetched"
    /\ readyCloses' = readyCloses + 1
    /\ ldr' = (IF readyCloses >= 1 THEN "done" ELSE "closing")
    /\ panicked' = (readyCloses >= 1)
    /\ UNCHANGED <<variant, file, ret, sessionsMap, pipeVars,
                   cancelCalls, browserCancelCalls, sessionsLoaded, loadingError,
                   res, mapWrites, jobsOK, okIDs>>

\* sessions.go: the loader goroutine's own close(sessionsReady) after fetch
\* returned; closing a closed channel panics, and the deferred Close runs.
LoaderCloseReady ==
    /\ ~panicked
    /\ UNCHANGED <<consumed, storeVars, copyVars>>
    /\ variant = "online"
    /\ ldr = "fetched"
    /\ readyCloses' = readyCloses + 1
    /\ ldr' = (IF readyCloses >= 1 THEN "panicking" ELSE "closing")
    /\ UNCHANGED <<variant, file, ret, sessionsMap, panicked, pipeVars,
                   cancelCalls, browserCancelCalls, sessionsLoaded, loadingError,
                   res, mapWrites, jobsOK, okIDs>>

\* loadAllSessions: the range loop ends and the function returns nil.
loadAllSessionsReturn ==
    /\ ~panicked
    /\ UNCHANGED <<consumed, storeVars, copyVars>>
    /\ variant = "main"
    /\ ldr = "merge"
    /\ resultChan = <<>>
    /\ resultChanClosed
    /\ ldr' = "returned"
    /\ UNCHANGED <<variant, file, ret, sessionsMap, readyCloses, panicked, pipeVars,
                   cancelCalls, browserCancelCalls, sessionsLoaded, loadingError,
                   res, mapWrites, jobsOK, okIDs>>

\* Mutant of loadAllSessionsErr: an error is returned when an identifier of
\* sessionIDs is missing from the catalog.
loadAllSessionsErrIfIncomplete(m) ==
    IF \E i \in DOMAIN sessionIDs : sessionIDs[i] \notin DOMAIN m
    THEN "some sessions failed" ELSE "nil"

\* The value loadAllSessions returns, whatever the catalog holds by then.
loadAllSessionsErr(m) == "nil"

\* main.go: on an error loadingError is set and the goroutine returns,
\* otherwise sessionsLoaded = true; the deferred Close follows either way.
MainSetLoaded ==
    /\ ~panicked
    /\ UNCHANGED <<consumed, storeVars, copyVars>>
    /\ variant = "main"
    /\ ldr = "returned"
    /\ LET err == loadAllSessionsErr(sessionsMap) IN
        IF err # "nil"
        THEN loadingError' = err /\ sessionsLoaded' = sessionsLoaded
        ELSE sessionsLoaded' = TRUE /\ loadingError' = loadingError
    /\ ldr' = "closing"
    /\ UNCHANGED <<variant, file, ret, sessionsMap, readyCloses, panicked, pipeVars,
                   cancelCalls, browserCancelCalls,
                   res, mapWrites, jobsOK, okIDs>>

\* The deferred fetcher.Close(); after a panic the process then dies.
FetcherClose ==
    /\ ~panicked
    /\ UNCHANGED <<consumed, storeVars, copyVars>>
    /\ ldr \in {"closing", "panicking"}
    /\ cancelCalls' = cancelCalls + 1
    /\ browserCancelCalls' = browserCancelCalls + 1
    /\ panicked' = (ldr = "panicking")
    /\ ldr' = "done"
    /\ UNCHANGED <<variant, file, ret, sessionsMap, readyCloses, pipeVars,
                   sessionsLoaded, loadingError, res, mapWrites,
                   jobsOK, okIDs>>

\* ------------------------------------------------- query handlers (main.go)
QueryIDs == 0..NumIDs

Loading == "Sessions are still loading, results may be incomplete."
NotFound == "Session with ID not found."
Found == "Successfully found session details."

\* AllSessions: the response for the given values of the globals it reads
\* and one iteration order of the catalog.
AllSessionsResponse(loaded, lerr, order) ==
    IF ~loaded /\ lerr # "nil"
    THEN [op |-> "AllSessions", arg |-> 0, loaded |-> loaded, content |-> <<>>,
          structured |-> <<>>, err |-> "Error loading sessions"]
    ELSE [op |-> "AllSessions", arg |-> 0, loaded |-> loaded,
          content |-> (IF ~loaded THEN <<Loading>> ELSE <<>>),
          structured |-> sessions(order), err |-> "nil"]

\* Mutant of SessionByIDResponse: an identifier of sessionIDs that is not in
\* the catalog is reported as having failed to load.
SessionByIDResponseLeaky(loaded, lerr, id) ==
    IF ~loaded /\ lerr # "nil"
    THEN [op |-> "SessionByID", arg |-> id, loaded |-> loaded, content |-> <<>>,
          structured |-> <<>>, err |-> "Error loading sessions"]
    ELSE LET r == sessionByID(id)
         IN  IF ~r[2]
             THEN [op |-> "SessionByID", arg |-> id, loaded |-> loaded,
                   content |-> (IF \E i \in DOMAIN sessionIDs : sessionIDs[i] = id
                                THEN <<"Session failed to load.">> ELSE <<NotFound>>),
                   structured |-> <<>>, err |-> "nil"]
             ELSE [op |-> "SessionByID", arg |-> id, loaded |-> loaded,
                   content |-> <<Found>>, structured |-> <<r[1]>>, err |-> "nil"]

\* SessionByID: res.Content is assigned again after the lookup.
SessionByIDResponse(loaded, lerr, id) ==
    IF ~loaded /\ lerr # "nil"
    THEN [op |-> "SessionByID", arg |-> id, loaded |-> loaded, content |-> <<>>,
          structured |-> <<>>, err |-> "Error loading sessions"]
    ELSE LET c0 == IF ~loaded THEN <<Loading>> ELSE <<>>
             r == sessionByID(id)
         IN  IF ~r[2]
             THEN [op |-> "SessionByID", arg |-> id, loaded |-> loaded,
                   content |-> <<NotFound>>, structured |-> <<>>, err |-> "nil"]
             ELSE [op |-> "SessionByID", arg |-> id, loaded |-> loaded,
                   content |-> <<Found>>, structured |-> <<r[1]>>, err |-> "nil"]

\* What a handler's read of sessionsLoaded can return. The read is not
\* synchronized with the loader goroutine's write, so after the write it
\* returns the written value or the one before it.
sessionsLoadedReads == IF sessionsLoaded THEN {TRUE, FALSE} ELSE {FALSE}

AllSessions ==
    /\ ~panicked
    /\ UNCHANGED <<consumed, storeVars, copyVars>>
    /\ variant = "main"
    /\ \E order \in Orderings(DOMAIN sessionsMap), loaded \in sessionsLoadedReads :
        res' = AllSessionsResponse(loaded, loadingError, order)
    /\ UNCHANGED <<variant, file, ldr, ret, sessionsMap, readyCloses, panicked,
                   pipeVars, cancelCalls, browserCancelCalls, sessionsLoaded,
                   loadingError, mapWrites, jobsOK, okIDs>>

SessionByID ==
    /\ ~panicked
    /\ UNCHANGED <<consumed, storeVars, copyVars>>
    /\ variant = "main"
    /\ \E id \in QueryIDs, loaded \in sessionsLoadedReads :
        res' = SessionByIDResponse(loaded, loadingError, id)
    /\ UNCHANGED <<variant, file, ldr, ret, sessionsMap, readyCloses, panicked,
                   pipeVars, cancelCalls, browserCancelCalls, sessionsLoaded,
                   loadingError, mapWrites, jobsOK, okIDs>>

Pipeline ==
    \/ NewFetcher
    \/ FetchStart
    \/ Dispatch
    \/ DispatchClose
    \/ WatcherClose
    \/ \E w \in Workers : WorkerRecv(w)
    \/ \E w \in Workers : WorkerAttempt(w)
    \/ \E w \in Workers : WorkerSend(w)
    \/ MergeStep
    \/ FetcherClose

Next ==
    \/ LoadSessionsOffline
    \/ LoadSessionsOnline
    \/ Pipeline
    \/ FetchEnd
    \/ LoaderCloseReady

NextMain ==
    \/ MainStart
    \/ Pipeline
    \/ loadAllSessionsReturn
    \/ MainSetLoaded
    \/ AllSessions
    \/ SessionByID

Spec == Init /\ [][Next]_vars

SpecMain == InitMain /\ [][NextMain]_vars

\* The goroutines of the load run; the Go scheduler runs every goroutine
\* that can take a step.
Loader == LoadSessionsOffline \/ LoadSessionsOnline \/ NewFetcher \/ FetchStart
            \/ MergeStep \/ FetchEnd \/ LoaderCloseReady \/ FetcherClose

Dispatcher == Dispatch \/ DispatchClose

Worker(w) == WorkerRecv(w) \/ WorkerAttempt(w) \/ WorkerSend(w)

FairSpec ==
    /\ Spec
    /\ WF_vars(Loader)
    /\ WF_vars(Dispatcher)
    /\ WF_vars(WatcherClose)
    /\ \A w \in Workers : WF_vars(Worker(w))

\* ------------------------------------------------- the catalog's lock
\* Everything but the catalog, the lock and the goroutines using them.
restVars == <<variant, file, ldr, ret, readyCloses, panicked, pipeVars,
              cancelCalls, browserCancelCalls, sessionsLoaded, loadingError,
              res, mapWrites, jobsOK, okIDs, consumed>>

\* The record writer w stores.
RecordOf(w) == [ID |-> w, Title |-> "T1", URL |-> URLOf(w)]

\* Mutant of MutexLock: the writer enters without taking the lock.
MutexLockNoWait(w) ==
    /\ wr[w].pc = "idle"
    /\ wr' = [wr EXCEPT ![w].pc = "write"]
    /\ mu' = [mu EXCEPT !.writer = TRUE]
    /\ UNCHANGED <<sessionsMap, rd, copyVars, restVars>>

\* sessionsMutex.Lock(): waits until no goroutine holds the lock.
MutexLock(w) ==
    /\ wr[w].pc = "idle"
    /\ ~mu.writer
    /\ mu.readers = 0
    /\ wr' = [wr EXCEPT ![w].pc = "write"]
    /\ mu' = [mu EXCEPT !.writer = TRUE]
    /\ UNCHANGED <<sessionsMap, rd, copyVars, restVars>>

\* sessionsMap[id] = session is not atomic: the assignment reads the table ...
MapLoad(w) ==
    /\ wr[w].pc = "write"
    /\ wr' = [wr EXCEPT ![w].pc = "store", ![w].tmp = sessionsMap]
    /\ UNCHANGED <<sessionsMap, mu, rd, copyVars, restVars>>

\* ... and then stores the table with the entry added.
MapStore(w) ==
    /\ wr[w].pc = "store"
    /\ sessionsMap' = Put(wr[w].tmp, RecordOf(w).ID, RecordOf(w))
    /\ wr' = [wr EXCEPT ![w].pc = "unlock", ![w].tmp = <<>>]
    /\ UNCHANGED <<mu, rd, copyVars, restVars>>

\* sessionsMutex.Unlock()
MutexUnlock(w) ==
    /\ wr[w].pc = "unlock"
    /\ mu' = [mu EXCEPT !.writer = FALSE]
    /\ wr' = [wr EXCEPT ![w].pc = "done"]
    /\ UNCHANGED <<sessionsMap, rd, copyVars, restVars>>

\* sessionsMutex.RLock() at the start of sessions() or sessionByID(id):
\* waits while a writer holds the lock.
MutexRLock(r) ==
    /\ rd[r].pc = "idle"
    /\ ~mu.writer
    /\ mu' = [mu EXCEPT !.readers = @ + 1]
    /\ \/ rd' = [rd EXCEPT ![r].pc = "read", ![r].op = "sessions"]
       \/ \E id \in Writers :
            rd' = [rd EXCEPT ![r].pc = "read", ![r].op = "sessionByID", ![r].arg = id]
    /\ UNCHANGED <<sessionsMap, wr, copyVars, restVars>>

\* The body of sessions() or sessionByID(id) under the read lock.
ReaderRead(r) ==
    /\ rd[r].pc = "read"
    /\ \/ /\ rd[r].op = "sessions"
          /\ \E order \in Orderings(DOMAIN sessionsMap) :
                rd' = [rd EXCEPT ![r].pc = "runlock", ![r].out = sessions(order)]
       \/ /\ rd[r].op = "sessionByID"
          /\ rd' = [rd EXCEPT ![r].pc = "runlock", ![r].out = sessionByID(rd[r].arg)]
    /\ UNCHANGED <<sessionsMap, mu, wr, copyVars, restVars>>

\* The deferred sessionsMutex.RUnlock(); the call returns.
MutexRUnlock(r) ==
    /\ rd[r].pc = "runlock"
    /\ mu' = [mu EXCEPT !.readers = @ - 1]
    /\ rd' = [rd EXCEPT ![r] = [IdleReader EXCEPT !.pc = "done"]]
    /\ UNCHANGED <<sessionsMap, wr, copyVars, restVars>>

InitStore ==
    /\ variant = "store"
    /\ file = [status |-> "missing", data |-> <<>>]
    /\ InitCommon

NextStore ==
    \/ \E w \in Writers : MutexLock(w)
    \/ \E w \in Writers : MapLoad(w)
    \/ \E w \in Writers : MapStore(w)
    \/ \E w \in Writers : MutexUnlock(w)
    \/ \E r \in Readers : MutexRLock(r)
    \/ \E r \in Readers : ReaderRead(r)
    \/ \E r \in Readers : MutexRUnlock(r)

\* Concurrent writers and readers of the catalog.
SpecStore == InitStore /\ [][NextStore]_vars

\* ------------------------------------------- what sessions() hands out
\* A Session as Go stores it: Speakers is a slice, a reference to a backing
\* array; copying the struct copies the reference.
SessionWithSpeakers(id, title, addr) ==
    [ID |-> id, Title |-> title, URL |-> URLOf(id), Speakers |-> addr]

\* parseSession builds a record with a new Speakers array and the merge
\* loop stores it.
PutSession ==
    /\ Len(heap) < MaxPuts
    /\ \E i \in DOMAIN sessionIDs, title \in Titles :
        sessionsMap' = Put(sessionsMap, sessionIDs[i],
                           SessionWithSpeakers(sessionIDs[i], title, Len(heap) + 1))
    /\ heap' = Append(heap, <<"S1">>)
    /\ UNCHANGED <<got, storeVars, restVars>>

\* s := sessions()
ListSessions ==
    /\ \E order \in Orderings(DOMAIN sessionsMap) : got' = sessions(order)
    /\ UNCHANGED <<sessionsMap, heap, storeVars, restVars>>

\* s[i].Title = "changed"
CallerSetTitle ==
    /\ \E i \in DOMAIN got : got' = [got EXCEPT ![i].Title = "changed"]
    /\ UNCHANGED <<sessionsMap, heap, storeVars, restVars>>

\* s[i].Speakers[0] = "changed"
CallerSetSpeaker ==
    /\ \E i \in DOMAIN got : heap' = [heap EXCEPT ![got[i].Speakers][1] = "changed"]
    /\ UNCHANGED <<sessionsMap, got, storeVars, restVars>>

InitCopy ==
    /\ variant = "copy"
    /\ file = [status |-> "missing", data |-> <<>>]
    /\ InitCommon

NextCopy == PutSession \/ ListSessions \/ CallerSetTitle \/ CallerSetSpeaker

\* The catalog and one caller of sessions() that writes to what it got.
SpecCopy == InitCopy /\ [][NextCopy]_vars

\* The shared variables the next step of the loader goroutine writes
\* without holding sessionsMutex.
LoaderUnlockedWrites ==
    IF variant = "main" /\ ~panicked /\ ldr = "returned"
    THEN (IF loadAllSessionsErr(sessionsMap) # "nil" THEN {"loadingError"}
          ELSE {"sessionsLoaded"})
    ELSE {}

\* The shared variables a query handler called now reads before it takes
\* the read lock.
HandlerUnlockedReads ==
    IF variant = "main" /\ ~panicked
    THEN {"sessionsLoaded"} \cup (IF sessionsLoaded THEN {} ELSE {"loadingError"})
    ELSE {}

\* The three programs side by side.
SpecAll == (Init \/ InitMain) /\ [][Next \/ NextMain]_vars

\* ------------------------------------------------------------------ claims
\* The online load run has left the merge loop.
OnlineFinished == variant = "online" /\ ldr \in {"fetched", "closing", "panicking", "done"}

UpTo(n) == [j \in 1..n |-> j]

\* C1: in every run started through loadSessions the readiness channel
\* sessionsReady is closed exactly once: never a second close, and once the
\* run of a successful loadSessions is over it has been closed.
C1_ReadyClosedExactlyOnce ==
    /\ readyCloses <= 1
    /\ (ldr = "done" /\ ret = "nil" => readyCloses = 1)

\* C2: when the first successful attempt of a job is attempt k, fetch was
\* invoked exactly k times, nothing is attempted after it, the waits before
\* it were 1, 2, ..., k-1 seconds, and the record of that attempt is the one
\* the worker emits.
C2_RetryUntilSuccess ==
    [][\A w \in Workers :
        wk[w].firstOK # 0 =>
            /\ wk[w].pc = "send"
            /\ wk[w].firstOK \in 1..maxRetries
            /\ wk[w].calls = wk[w].firstOK
            /\ wk[w].sleeps = UpTo(wk[w].firstOK - 1)
            /\ wk[w].err = NoErr
            /\ wk[w].session = wk[w].last[1]
            /\ wk[w].session.ID = wk[w].sessionID
            /\ (wk'[w].pc # "send" =>
                    resultChan' = Append(resultChan,
                        [sessionID |-> wk[w].sessionID, session |-> wk[w].last[1],
                         err |-> NoErr]))]_vars

\* A job succeeded at its third attempt, after two failures.
C2_Witness ==
    \E w \in Workers :
        /\ wk[w].pc = "send"
        /\ wk[w].firstOK = maxRetries
        /\ wk[w].sleeps = <<1, 2>>

\* C3: a job whose attempts all fail invokes fetch exactly 3 times, sleeps
\* only between attempts, and emits exactly one result: no record, and an
\* error that names the identifier and is the error of the last attempt.
C3_RetryExhausted ==
    [][\A w \in Workers :
        (wk[w].pc = "send" /\ wk[w].firstOK = 0) =>
            /\ wk[w].calls = maxRetries
            /\ wk[w].sleeps = UpTo(maxRetries - 1)
            /\ wk[w].err # NoErr
            /\ wk[w].err = wk[w].last[2]
            /\ wk[w].err.sessionID = wk[w].sessionID
            /\ wk[w].session = ZeroSession
            /\ (wk'[w].pc # "send" =>
                    resultChan' = Append(resultChan,
                        [sessionID |-> wk[w].sessionID, session |-> ZeroSession,
                         err |-> wk[w].last[2]]))]_vars

\* A failed job's result is in the results channel.
C3_Witness ==
    \E i \in DOMAIN resultChan :
        /\ resultChan[i].err.kind = "parse"
        /\ resultChan[i].session = ZeroSession

NoDuplicateIDs(s) == \A i, j \in DOMAIN s : s[i].ID = s[j].ID => i = j

\* C4: after the load run over sessionIDs the length of sessions() equals
\* the number of identifiers (entries of sessionIDs) whose fetch job
\* succeeded; the list is never longer than sessionIDs and never holds two
\* records with the same identifier.
C4_ListLengthIsSuccessCount ==
    \A s \in sessionsResults :
        /\ (OnlineFinished => Len(s) = jobsOK)
        /\ Len(s) <= Len(sessionIDs)
        /\ NoDuplicateIDs(s)

\* C5: the record stored under key k has ID k, so sessionByID(k), when it
\* reports found, returns a record whose ID is k.
C5_KeyIntegrity ==
    /\ \A k \in DOMAIN sessionsMap : sessionsMap[k].ID = k
    /\ \A id \in QueryIDs : sessionByID(id)[2] => sessionByID(id)[1].ID = id

\* The offline load merged two records under two keys.
C5_Witness ==
    /\ variant = "offline"
    /\ ldr = "done"
    /\ Cardinality(DOMAIN sessionsMap) = 2

\* C6: when the online load run finishes, the keys of the catalog are
\* exactly the identifiers some fetch job of which succeeded.
C6_CatalogIsSuccessfulIDs ==
    OnlineFinished => DOMAIN sessionsMap = okIDs

\* One identifier failed all its attempts and another one was merged.
C6_Witness ==
    /\ OnlineFinished
    /\ okIDs = {2}
    /\ 2 \in DOMAIN sessionsMap

Ready == readyCloses >= 1 \/ sessionsLoaded

\* C7: once readiness is signaled the catalog is never written again, and
\* it is signaled only after every worker returned and every result was
\* merged (offline: after the bulk load).
C7_NoWriteAfterReady ==
    [][Ready =>
        /\ sessionsMap' = sessionsMap
        /\ mapWrites' = mapWrites
        /\ resultChan = <<>>
        /\ (variant # "offline" =>
                /\ resultChanClosed
                /\ \A w \in Workers : wk[w].pc = "exit")
        /\ (variant = "offline" => ldr = "done")]_vars

\* Readiness was signaled with a non-empty catalog and a step followed.
C7_Witness ==
    /\ Ready
    /\ ldr = "done"
    /\ variant # "offline"
    /\ mapWrites >= 2

Range(q) == {q[i] : i \in DOMAIN q}

NoFetchStarted ==
    /\ \A w \in Workers : wk[w].pc = "off" /\ wk[w].calls = 0
    /\ watcher = "off"
    /\ sent = 0
    /\ sessionChan = <<>>

OfflineLoaded == variant = "offline" /\ file.status = "ok" /\ ldr # "start"

\* C8 as stated: after an offline load of a well-formed snapshot the catalog
\* holds exactly the snapshot's records, each under its identifier, so
\* sessions() returns exactly those records; readiness is signaled and
\* nothing was fetched.
C8_OfflineLoadsExactlySnapshot ==
    OfflineLoaded =>
        /\ ldr = "done"
        /\ ret = "nil"
        /\ \A s \in sessionsResults : Range(s) = Range(file.data)
        /\ \A k \in DOMAIN sessionsMap : sessionsMap[k].ID = k
        /\ readyCloses = 1
        /\ NoFetchStarted

\* The last record of the snapshot that carries identifier k.
LastWithID(data, k) ==
    data[CHOOSE i \in DOMAIN data :
            /\ data[i].ID = k
            /\ \A j \in DOMAIN data : j > i => data[j].ID # k]

\* C8 amended: the catalog holds, for every identifier of the snapshot, the
\* last record carrying it (so exactly the snapshot's records when its
\* identifiers are pairwise distinct); readiness is signaled and nothing
\* was fetched.
C8_OfflineLoadsLastPerID ==
    OfflineLoaded =>
        /\ ldr = "done"
        /\ ret = "nil"
        /\ DOMAIN sessionsMap = {file.data[i].ID : i \in DOMAIN file.data}
        /\ \A k \in DOMAIN sessionsMap : sessionsMap[k] = LastWithID(file.data, k)
        /\ \A s \in sessionsResults :
            /\ Range(s) = {LastWithID(file.data, k) : k \in DOMAIN sessionsMap}
            /\ (NoDuplicateIDs(file.data) =>
                    Range(s) = Range(file.data) /\ Len(s) = Len(file.data))
        /\ readyCloses = 1
        /\ NoFetchStarted

\* A snapshot whose two records carry the same identifier was loaded.
C8_Witness ==
    /\ OfflineLoaded
    /\ ldr = "done"
    /\ Len(file.data) = 2
    /\ file.data[1].ID = file.data[2].ID
    /\ file.data[1] # file.data[2]

\* C9: when the snapshot cannot be opened or decoded, loadSessions returns
\* an error, the catalog is as before the call (empty), readiness is not
\* signaled and no fetch is started.
C9_OfflineFailureIsFatal ==
    (variant = "offline" /\ file.status # "ok" /\ ldr # "start") =>
        /\ ldr = "done"
        /\ ret = "error"
        /\ sessionsMap = EmptyMap
        /\ mapWrites = 0
        /\ readyCloses = 0
        /\ NoFetchStarted

\* Decoding failed after two entries had been read.
C9_Witness ==
    /\ variant = "offline"
    /\ file.status = "corrupt"
    /\ Len(file.data) = 2
    /\ ldr = "done"
    /\ ret = "error"

\* C10: every response of AllSessions and of SessionByID produced while
\* sessionsLoaded is false carries the "still loading" text.
C10_LoadingIndicator ==
    (res.op # "none" /\ ~res.loaded /\ res.err = "nil") => Loading \in Range(res.content)

\* Identifiers of sessionIDs none of whose jobs produced a record, and
\* identifiers a caller may ask for that sessionIDs never listed.
FailedIDs == Range(sessionIDs) \ okIDs

NeverIDs == QueryIDs \ Range(sessionIDs)

\* C11: after the load has completed, SessionByID answers a lookup of an
\* identifier that failed all its attempts exactly as it answers a lookup of
\* an identifier that was never in sessionIDs: apart from the identifier
\* echoed back, no field of the two responses differs.
C11_NotFoundIndistinguishable ==
    /\ sessionsLoaded =>
        \A x \in FailedIDs, y \in NeverIDs :
            [SessionByIDResponse(sessionsLoaded, loadingError, x) EXCEPT !.arg = y]
                = SessionByIDResponse(sessionsLoaded, loadingError, y)
    /\ (res.op = "SessionByID" /\ res.loaded /\ res.arg \in FailedIDs \cup NeverIDs) =>
        res = [op |-> "SessionByID", arg |-> res.arg, loaded |-> TRUE,
               content |-> <<NotFound>>, structured |-> <<>>, err |-> "nil"]

\* An identifier that failed to load was looked up after the load completed.
C11_Witness ==
    /\ res.op = "SessionByID"
    /\ res.loaded
    /\ res.arg \in FailedIDs

\* C14: the online load never ends in an error: loadingError is never set,
\* no query response is the "Error loading sessions" error, and when the
\* loader is through sessionsLoaded is true, even if every identifier failed.
C14_LoadNeverFails ==
    /\ loadingError = "nil"
    /\ res.err = "nil"
    /\ (variant = "main" /\ ldr \in {"closing", "done"} => sessionsLoaded)

\* Every identifier failed, the load completed and a query was answered.
C14_Witness ==
    /\ variant = "main"
    /\ ldr = "done"
    /\ sessionsMap = EmptyMap
    /\ jobsOK = 0
    /\ res.op # "none"
    /\ res.loaded

\* The online load run is over and readiness is signaled.
LoadRunOver ==
    /\ sessionChanClosed
    /\ \A w \in Workers : wk[w].pc = "exit"
    /\ resultChanClosed
    /\ resultChan = <<>>
    /\ readyCloses >= 1

\* C15: under fair scheduling an online load run terminates: the work
\* queue is closed, every worker exits, the results channel is closed and
\* drained, and readiness is signaled; no state before that is a deadlock.
C15_LoadTerminates ==
    /\ variant = "online" => <>LoadRunOver
    /\ [](variant = "online" /\ ~LoadRunOver => ENABLED <<Next>>_vars)

\* The run ended with readiness signaled although every job failed.
C15_Witness ==
    /\ variant = "online"
    /\ readyCloses >= 1
    /\ \A w \in Workers : wk[w].pc = "exit"
    /\ okIDs = {}

\* The identifiers taken from the work queue so far, in the order taken.
TakenIDs == SubSeq(sessionIDs, 1, sent - Len(sessionChan))

\* C16: during one online load run no identifier value is taken from the
\* work queue more than once, so every write to the catalog is the only
\* write for its identifier.
C16_OneJobPerIdentifier ==
    variant = "online" =>
        /\ \A i, j \in DOMAIN TakenIDs : TakenIDs[i] = TakenIDs[j] => i = j
        /\ mapWrites = Cardinality(DOMAIN sessionsMap)

\* C18: the work queue and the results channel never hold more than
\* len(sessionIDs) items, and neither the dispatcher nor a worker ever
\* finds its channel full when it is about to send.
C18_SendsNeverBlock ==
    /\ Len(sessionChan) <= Len(sessionIDs)
    /\ Len(resultChan) <= Len(sessionIDs)
    /\ (watcher # "off" /\ sent < Len(sessionIDs) => Len(sessionChan) < sessionChanCap)
    /\ \A w \in Workers : wk[w].pc = "send" => Len(resultChan) < resultChanCap

\* Every result is buffered while the merge loop has merged nothing.
C18_Witness ==
    /\ Len(resultChan) = Len(sessionIDs)
    /\ mapWrites = 0
    /\ ldr = "merge"

\* The catalog after the merge loop handled the results q, in order.
RECURSIVE MergeSeq(_, _)
MergeSeq(m, q) ==
    IF q = <<>> THEN m ELSE MergeSeq(MergeResult(m, Head(q)), Tail(q))

\* C19: the merge is commutative: whatever the order in which the results
\* now waiting in the results channel arrive at the merge loop, the catalog
\* after merging them is the same.
C19_MergeOrderIrrelevant ==
    \A p \in Orderings(DOMAIN resultChan) :
        MergeSeq(sessionsMap, [i \in DOMAIN resultChan |-> resultChan[p[i]]])
            = MergeSeq(sessionsMap, resultChan)

\* A fetcher exists (newFetcher returned) and the loader goroutine is over.
FetcherRunOver == variant # "offline" /\ (ldr = "done" \/ panicked)

\* C20: for a fetcher made by newFetcher, cancel and browserCancel are each
\* called exactly once however the run ends, and never while a worker is
\* still in its loop.
C20_CancelExactlyOnce ==
    /\ [](/\ cancelCalls <= 1
          /\ browserCancelCalls <= 1
          /\ (FetcherRunOver => cancelCalls = 1 /\ browserCancelCalls = 1))
    /\ [][(cancelCalls' # cancelCalls \/ browserCancelCalls' # browserCancelCalls) =>
            \A w \in Workers : wk[w].pc = "exit"]_vars

\* The loader goroutine panicked and its deferred Close had run.
C20_Witness ==
    /\ variant = "online"
    /\ panicked
    /\ cancelCalls = 1
    /\ browserCancelCalls = 1

\* Occurrences of id in the sequence q of identifiers.
Occurrences(q, id) == Cardinality({i \in DOMAIN q : q[i] = id})

\* Results for id in the results channel.
Buffered(id) == Cardinality({i \in DOMAIN resultChan : resultChan[i].sessionID = id})

\* Workers that took id from the work queue and have not sent its result.
Holding(id) == Cardinality({w \in Workers : wk[w].pc \in {"attempt", "send"}
                                            /\ wk[w].sessionID = id})

\* C17: every entry put on the work queue is, for its identifier, still in
\* the queue, or held by one worker, or buffered as one result, or consumed
\* by the merge loop; when the merge loop has ended, the results consumed
\* are exactly the entries of sessionIDs.
C17_ResultsConserved ==
    variant # "offline" =>
        /\ \A id \in DOMAIN consumed :
            Occurrences(SubSeq(sessionIDs, 1, sent), id)
                = Occurrences(sessionChan, id) + Holding(id) + Buffered(id) + consumed[id]
        /\ (ldr \notin {"start", "newFetcher", "fetch", "merge"} =>
                \A id \in DOMAIN consumed : consumed[id] = Occurrences(sessionIDs, id))

\* The merge loop has ended after consuming results of failed jobs too.
C17_Witness ==
    /\ variant = "online"
    /\ ldr = "fetched"
    /\ okIDs # Range(sessionIDs)
    /\ \A id \in DOMAIN consumed : consumed[id] = Occurrences(sessionIDs, id)

InWrite(w) == wr[w].pc \in {"write", "store", "unlock"}

InRead(r) == rd[r].pc \in {"read", "runlock"}

\* C12: at most one writer is between Lock and Unlock, no reader is between
\* RLock and RUnlock while a writer is, what a reader got is what the
\* catalog holds as long as it keeps the read lock, and once the N writers
\* are done the catalog has exactly their N entries.
C12_WritesMutuallyExclusive ==
    /\ \A w1, w2 \in Writers : InWrite(w1) /\ InWrite(w2) => w1 = w2
    /\ \A w \in Writers, r \in Readers : ~(InWrite(w) /\ InRead(r))
    /\ ~(mu.writer /\ mu.readers > 0)
    /\ \A r \in Readers : rd[r].pc = "runlock" =>
            IF rd[r].op = "sessions" THEN rd[r].out \in sessionsResults
            ELSE rd[r].out = sessionByID(rd[r].arg)
    /\ (\A w \in Writers : wr[w].pc = "done") =>
            /\ DOMAIN sessionsMap = Writers
            /\ \A w \in Writers : sessionsMap[w] = RecordOf(w)

\* All writers are done with their N entries in the catalog and a reader has returned.
C12_Witness ==
    /\ \A w \in Writers : wr[w].pc = "done"
    /\ Cardinality(DOMAIN sessionsMap) = NumWriters
    /\ \E r \in Readers : rd[r].pc = "done"

\* A record with its Speakers slice read through.
Deref(rec) == [rec EXCEPT !.Speakers = heap[rec.Speakers]]

\* What get() and list() can observe of the catalog.
StoreView == [id \in DOMAIN sessionsMap |-> Deref(sessionsMap[id])]

\* What the caller observes of the list it holds.
GotView == [i \in DOMAIN got |-> Deref(got[i])]

\* C13: the list sessions() returned is a defensive copy: a write to the
\* catalog does not change what the caller holds, and whatever the caller
\* writes to what it holds (an element, a field, an element of a speaker
\* list) does not change what the catalog returns afterwards.
C13_DefensiveCopy ==
    [][/\ (sessionsMap' # sessionsMap => GotView' = GotView)
       /\ (sessionsMap' = sessionsMap => StoreView' = StoreView)]_vars

\* C21: the results channel is closed only when every worker has returned,
\* a worker has returned only when the work queue is closed and empty, no
\* worker is ever about to send on a closed results channel, and the
\* results channel is closed by one step of the watcher and stays closed.
C21_ResultsClosedAfterWorkers ==
    /\ [](/\ (resultChanClosed => \A w \in Workers : wk[w].pc = "exit")
          /\ \A w \in Workers :
                wk[w].pc = "exit" => sessionChanClosed /\ sessionChan = <<>>
          /\ \A w \in Workers : ~(wk[w].pc = "send" /\ resultChanClosed)
          /\ (watcher = "done" => resultChanClosed))
    /\ [][/\ (resultChanClosed => resultChanClosed')
          /\ (resultChanClosed' # resultChanClosed =>
                watcher = "wait" /\ watcher' = "done")]_vars

\* The results channel was closed with results still buffered in it.
C21_Witness ==
    /\ resultChanClosed
    /\ resultChan # <<>>
    /\ \A w \in Workers : wk[w].pc = "exit"

\* The identifiers of the records in a list sessions() returned.
ListKeys(l) == {l[i].ID : i \in DOMAIN l}

\* C23: the catalog only grows: no step removes a key, so the keys of any
\* list sessions() can return before a step are among the keys of any list
\* it can return after it, and an identifier sessionByID reports as found
\* is still found after the step.
C23_CatalogOnlyGrows ==
    [][/\ DOMAIN sessionsMap \subseteq DOMAIN sessionsMap'
       /\ \A l1 \in sessionsResults : \A l2 \in sessionsResults' :
            ListKeys(l1) \subseteq ListKeys(l2)
       /\ \A id \in QueryIDs : sessionByID(id)[2] => sessionByID(id)[2]']_vars

\* Both jobs of the repeated identifier were merged, one of them failed,
\* and its entry is in the catalog.
C23_Witness ==
    /\ variant = "online"
    /\ consumed[sessionIDs[1]] = 2
    /\ okIDs = {sessionIDs[1]}
    /\ jobsOK = 1
    /\ sessionIDs[1] \in DOMAIN sessionsMap

\* C22: no reachable state lets the loader goroutine write a shared
\* variable outside sessionsMutex while a query handler can read the same
\* variable outside it.
C22_NoUnsynchronizedAccess ==
    LoaderUnlockedWrites \cap HandlerUnlockedReads = {}

====
